---- MODULE Spec2Model ----
(***************************************************************************)
(* Model of seqc/summary/summary.py: the Section construction helpers and  *)
(* the Summary archive lifecycle (prepare_archive, import_image, render,   *)
(* compress_archive).                                                      *)
(*                                                                         *)
(* Strings that the code takes apart (archive_name, image paths, the       *)
(* alignment summary text) are sequences of tokens; "/" , "|" , "\n" and   *)
(* " " are tokens of their own, every other token stands for a run of      *)
(* ordinary characters.                                                    *)
(***************************************************************************)
EXTENDS Integers, Sequences, FiniteSets, TLC

VARIABLES
    archive_name,   \* Summary.archive_name (token sequence)
    sections,       \* Summary.sections (sequence of Section filenames)
    index_section,  \* Summary.index_section (a filename, or None)
    disk,           \* the filesystem around archive_name
    last,           \* the last call made: operation, outcome, state before it
    calls,          \* number of calls made on the Summary so far
    text,           \* content of the alignment summary file
    parsed,         \* outcome of Section.from_alignment_summary
    status,         \* ra.data['status']
    filter_code,    \* ra.filter_codes[...] of the correction being reported
    counted         \* outcome of the correction helpers

vars == <<archive_name, sections, index_section, disk, last, calls,
          text, parsed, status, filter_code, counted>>

archiveVars == <<archive_name, sections, index_section, disk, last, calls>>
parseVars == <<text, parsed>>
countVars == <<status, filter_code, counted>>

\* ---------------------------------------------------------------- bounds
MaxSections == 2
MaxCalls == 4
MaxRecords == 3
MaxStatus == 3

\* ------------------------------------------------------- generic helpers
\* An optional argument is the empty set (Python's None) or the singleton of
\* its value.  A Section is identified by its filename.
None == {}

Some(x) == {x}

Get(o) == CHOOSE x \in o : TRUE

Range(s) == {s[i] : i \in 1..Len(s)}

SeqsUpTo(S, n) == UNION {[1..k -> S] : k \in 0..n}

RECURSIVE LastIndexOf(_, _, _)
LastIndexOf(s, t, i) ==
    IF i = 0 THEN 0
    ELSE IF s[i] = t THEN i ELSE LastIndexOf(s, t, i - 1)

\* str.rpartition(sep): <<head, sep, tail>> around the last sep,
\* <<"", "", s>> when there is none
rpartition(s, sep) ==
    LET i == LastIndexOf(s, sep, Len(s))
    IN  IF i = 0 THEN << <<>>, <<>>, s >>
        ELSE << SubSeq(s, 1, i - 1), <<sep>>, SubSeq(s, i + 1, Len(s)) >>

\* the directories and the file a path names, one entry per non-empty
\* component ("p/a", "p/a/" and "p//a" name the same place)
RECURSIVE Components(_)
Components(p) ==
    IF p = <<>> THEN <<>>
    ELSE LET parts == rpartition(p, "/")
         IN  IF parts[3] = <<>> THEN Components(parts[1])
             ELSE Append(Components(parts[1]), parts[3])

DirName(comps) == SubSeq(comps, 1, Len(comps) - 1)

BaseName(comps) == comps[Len(comps)]

\* ------------------------------------------------------------ filesystem
\* A file inside the archive directory is <<subdirectory, name>>, both path
\* components, with <<>> for the archive directory itself.
Content(kind, self, links, index, tree) ==
    [kind |-> kind, self |-> self, links |-> links, index |-> index, tree |-> tree]

NoFiles == [p \in {} |-> <<>>]

NoTree == [subdirs |-> {}, files |-> NoFiles]

ScaffoldFile(n) == Content("scaffold", n, <<>>, <<>>, NoTree)

\* the reference directory: os.path.dirname(__file__)
ReferenceSubdirs == {<<"html">>, <<"img">>, <<"templates">>}

ReferenceFiles ==
    [p \in {<< <<>>, <<"summary.py">> >>,
            << <<"templates">>, <<"section_content.html">> >>}
        |-> ScaffoldFile(p[2])]

\* what an unrelated directory at archive_name holds
JunkFiles ==
    [p \in {<< <<>>, <<"notes.txt">> >>}
        |-> Content("junk", p[2], <<>>, <<>>, NoTree)]

Without(f, p) == [q \in DOMAIN f \ {p} |-> f[q]]

With(f, p, c) == [q \in DOMAIN f \cup {p} |-> IF q = p THEN c ELSE f[q]]

ArchiveDir(name) == Components(name)

DirExists(d, name, comps) ==
    IF comps = ArchiveDir(name) THEN d.dir
    ELSE IF Len(comps) = Len(ArchiveDir(name)) + 1
            /\ DirName(comps) = ArchiveDir(name)
         THEN d.dir /\ BaseName(comps) \in d.subdirs
    ELSE IF comps = DirName(ArchiveDir(name)) THEN d.parent
    ELSE FALSE

\* open(path, 'w') / the destination of shutil.copy: the file's directory
\* has to exist; the file is created or overwritten
CanCreate(d, name, path) ==
    LET comps == Components(path)
    IN  /\ comps # <<>>
        /\ path[Len(path)] # "/"
        /\ DirExists(d, name, DirName(comps))

WriteFile(d, name, path, c) ==
    LET comps == Components(path)
        dir == DirName(comps)
    IN  IF dir = ArchiveDir(name)
        THEN [d EXCEPT !.files = With(d.files, << <<>>, BaseName(comps) >>, c)]
        ELSE IF dir = DirName(ArchiveDir(name))
        THEN [d EXCEPT !.sibling = With(d.sibling, BaseName(comps), c)]
        ELSE [d EXCEPT !.files = With(d.files, << BaseName(dir), BaseName(comps) >>, c)]

Outcome(result, ret, d, writes) ==
    [result |-> result, ret |-> ret, disk |-> d, writes |-> writes]

\* --------------------------------------------------------------- Section
\* variant of Section.render that leaves the home link empty when no index
\* Section is given
SectionRender_without_index(d, name, self, prefix, link_sections, index, fails) ==
    LET links == IF link_sections = None THEN <<self>> ELSE Get(link_sections)
        path == prefix \o self
        home == IF index = None THEN <<>> ELSE Get(index)
    IN  IF fails
        THEN Outcome("TemplateError", None, d, <<>>)
        ELSE IF ~CanCreate(d, name, path)
        THEN Outcome("FileNotFoundError", None, d, <<>>)
        ELSE Outcome("ok", None,
                     WriteFile(d, name, path, Content("page", self, links, home, NoTree)),
                     <<path>>)

\* Section.render: fails stands for section_template.render raising on this
\* Section's content
SectionRender(d, name, self, prefix, link_sections, index, fails) ==
    LET links == IF link_sections = None THEN <<self>> ELSE Get(link_sections)
        path == prefix \o self
    IN  IF index = None
        THEN Outcome("AttributeError", None, d, <<>>)
        ELSE IF fails
        THEN Outcome("TemplateError", None, d, <<>>)
        ELSE IF ~CanCreate(d, name, path)
        THEN Outcome("FileNotFoundError", None, d, <<>>)
        ELSE Outcome("ok", None,
                     WriteFile(d, name, path,
                               Content("page", self, links, Get(index), NoTree)),
                     <<path>>)

\* --------------------------------------------------------------- Summary
rmtree(d) == [d EXCEPT !.dir = FALSE, !.subdirs = {}, !.files = NoFiles]

\* shutil.copytree(reference_directory, archive_name): the destination must
\* not exist; missing parents are created
copytree(d) ==
    IF d.dir THEN Outcome("FileExistsError", None, d, <<>>)
    ELSE Outcome("ok", None,
                 [d EXCEPT !.dir = TRUE, !.parent = TRUE,
                           !.subdirs = ReferenceSubdirs, !.files = ReferenceFiles],
                 <<>>)

\* variant of prepare_archive that copies the scaffold over whatever is there
prepare_archive_merge(d) ==
    Outcome("ok", None,
            [d EXCEPT !.dir = TRUE, !.parent = TRUE,
                      !.subdirs = d.subdirs \cup ReferenceSubdirs,
                      !.files = [p \in DOMAIN d.files \cup DOMAIN ReferenceFiles |->
                                    IF p \in DOMAIN ReferenceFiles
                                    THEN ReferenceFiles[p] ELSE d.files[p]]],
            <<>>)

prepare_archive(d) == copytree(IF d.dir THEN rmtree(d) ELSE d)

\* variant of import_image that creates the image directory when it is missing
import_image_makedirs(d, name, image_path, source_exists) ==
    LET filename == rpartition(image_path, "/")[3]
        dest == name \o <<"/", "img", "/">> \o filename
        made == [d EXCEPT !.dir = TRUE, !.parent = TRUE,
                          !.subdirs = d.subdirs \cup {<<"img">>}]
    IN  IF ~source_exists
        THEN Outcome("FileNotFoundError", None, d, <<>>)
        ELSE Outcome("ok", None,
                     WriteFile(made, name, dest,
                               Content("image", image_path, <<>>, <<>>, NoTree)),
                     <<>>)

import_image(d, name, image_path, source_exists) ==
    LET filename == rpartition(image_path, "/")[3]
        dest == name \o <<"/", "img", "/">> \o filename
    IN  IF ~source_exists \/ ~CanCreate(d, name, dest)
        THEN Outcome("FileNotFoundError", None, d, <<>>)
        ELSE Outcome("ok", None,
                     WriteFile(d, name, dest,
                               Content("image", image_path, <<>>, <<>>, NoTree)),
                     <<>>)

\* the loop of Summary.render from the i-th element of sections on; an
\* exception of a Section.render ends the call
RECURSIVE RenderSections(_, _, _, _, _, _, _)
RenderSections(d, name, secs, index, failing, i, writes) ==
    IF i > Len(secs) THEN Outcome("ok", None, d, writes)
    ELSE LET r == SectionRender(d, name, secs[i], name \o <<"/", "html", "/">>,
                                Some(secs), index, secs[i] \in failing)
         IN  IF r.result # "ok"
             THEN Outcome(r.result, None, r.disk, writes)
             ELSE RenderSections(r.disk, name, secs, index, failing, i + 1,
                                 writes \o r.writes)

\* variant of Summary.render that renders the index Section after the others
render_index_last(d, name, secs, index, failing) ==
    IF index = None
    THEN Outcome("AttributeError", None, d, <<>>)
    ELSE LET r == RenderSections(d, name, secs, index, failing, 1, <<>>)
         IN  IF r.result # "ok" THEN r
             ELSE LET q == SectionRender(r.disk, name, Get(index),
                                         name \o <<"/", "html", "/">>,
                                         Some(secs), index, Get(index) \in failing)
                  IN  Outcome(q.result, None, q.disk, r.writes \o q.writes)

\* Summary.render; failing holds the Sections whose render raises
render(d, name, secs, index, failing) ==
    LET html_location == name \o <<"/", "html", "/">>
    IN  IF index = None
        THEN Outcome("AttributeError", None, d, <<>>)
        ELSE LET r == SectionRender(d, name, Get(index), html_location,
                                    Some(secs), index, Get(index) \in failing)
             IN  IF r.result # "ok" THEN r
                 ELSE RenderSections(r.disk, name, secs, index, failing, 1, r.writes)

\* shutil.make_archive(base_name, 'gztar', root_dir, base_dir).  It changes
\* to root_dir, opens base_name + '.tar.gz' for writing and adds base_dir to
\* it; the archive file stays behind when adding fails.  Whether adding the
\* empty name '' works depends on the library version (add_empty_ok).
make_archive(d, name, base_name, root_dir, base_dir, add_empty_ok) ==
    LET target == base_name \o <<".tar.gz">>
        tcomps == Components(target)
        source == Components(root_dir \o <<"/">> \o base_dir)
        kept == IF DirName(tcomps) = ArchiveDir(name)
                THEN Without(d.files, << <<>>, BaseName(tcomps) >>)
                ELSE d.files
        empty == Content("tar", target, <<>>, <<>>, NoTree)
        full == Content("tar", target, <<base_dir>>, <<>>,
                        [subdirs |-> d.subdirs, files |-> kept])
    IN  IF root_dir = <<>> \/ ~DirExists(d, name, Components(root_dir))
        THEN Outcome("FileNotFoundError", None, d, <<>>)
        ELSE IF ~CanCreate(d, name, target)
        THEN Outcome("FileNotFoundError", None, d, <<>>)
        ELSE IF source # ArchiveDir(name) \/ ~d.dir
                \/ (base_dir = <<>> /\ ~add_empty_ok)
        THEN Outcome("FileNotFoundError", None,
                     WriteFile(d, name, target, empty), <<>>)
        ELSE Outcome("ok", Some(target), WriteFile(d, name, target, full), <<>>)

compress_archive(d, name, add_empty_ok) ==
    LET parts == rpartition(name, "/")
        r == make_archive(d, name, name, parts[1], parts[3], add_empty_ok)
    IN  IF r.result # "ok" THEN r
        ELSE Outcome("ok", Some(name \o <<".tar.gz">>), r.disk, <<>>)

\* ---------------------------------------- Section.from_alignment_summary
UNIQUE == "UNIQUE READS:"

MULTI == "MULTI-MAPPING READS:"

UNMAPPED == "UNMAPPED READS:"

RECURSIVE IndexOf(_, _, _)
IndexOf(s, t, i) ==
    IF i > Len(s) THEN 0
    ELSE IF s[i] = t THEN i ELSE IndexOf(s, t, i + 1)

\* str.partition(sep): <<head, sep, tail>> around the first sep,
\* <<s, "", "">> when there is none
partition(s, sep) ==
    LET i == IndexOf(s, sep, 1)
    IN  IF i = 0 THEN << s, <<>>, <<>> >>
        ELSE << SubSeq(s, 1, i - 1), <<sep>>, SubSeq(s, i + 1, Len(s)) >>

\* str.split(sep): the pieces between the separators, empty ones included
RECURSIVE split(_, _)
split(s, sep) ==
    LET parts == partition(s, sep)
    IN  IF parts[2] = <<>> THEN <<s>>
        ELSE <<parts[1]>> \o split(parts[3], sep)

RECURSIVE lstrip(_)
lstrip(s) == IF s # <<>> /\ s[1] = " " THEN lstrip(Tail(s)) ELSE s

RECURSIVE rstrip(_)
rstrip(s) ==
    IF s # <<>> /\ s[Len(s)] = " " THEN rstrip(SubSeq(s, 1, Len(s) - 1)) ELSE s

strip(s) == rstrip(lstrip(s))

\* the generator of split_lines: one list of fields per line holding a '|'
PipeRows(block) ==
    LET lines == SelectSeq(split(block, "\n"), LAMBDA l : "|" \in Range(l))
    IN  [i \in 1..Len(lines) |-> split(lines[i], "|")]

\* number of tuples zip(*rows) yields: the length of the shortest row
RECURSIVE ZipWidth(_)
ZipWidth(rows) ==
    IF rows = <<>> THEN 0
    ELSE IF Len(rows) = 1 THEN Len(rows[1])
    ELSE LET w == ZipWidth(Tail(rows))
         IN  IF Len(rows[1]) < w THEN Len(rows[1]) ELSE w

DataContent(keys, values) == [keys |-> keys, values |-> values]

\* split_lines: unpacking zip(*rows) into keys, values needs exactly two
\* tuples; keys and values are then stripped and filtered separately
split_lines(block) ==
    LET rows == PipeRows(block)
        column(j) == [i \in 1..Len(rows) |-> strip(rows[i][j])]
        nonempty(col) == SelectSeq(col, LAMBDA t : t # <<>>)
    IN  IF ZipWidth(rows) # 2
        THEN [raised |-> TRUE, table |-> DataContent(<<>>, <<>>)]
        ELSE [raised |-> FALSE,
              table |-> DataContent(nonempty(column(1)), nonempty(column(2)))]

\* the four blocks the three partitions cut the text into
Blocks(data) ==
    LET p1 == partition(data, UNIQUE)
        p2 == partition(p1[3], MULTI)
        p3 == partition(p2[3], UNMAPPED)
    IN  <<p1[1], p2[1], p3[1], p3[3]>>

CategoryNames ==
    <<"Run Time", "Unique Reads and Splicing", "Multimapping Reads", "Unmapped Reads">>

NotParsed == [done |-> FALSE, result |-> "none", categories |-> <<>>]

\* the categories in insertion order, each <<label, table>>; the first
\* split_lines that raises ends the call
from_alignment_summary(data) ==
    LET blocks == Blocks(data)
        tables == [i \in 1..4 |-> split_lines(blocks[i])]
    IN  IF \E i \in 1..4 : tables[i].raised
        THEN [done |-> TRUE, result |-> "ValueError", categories |-> <<>>]
        ELSE [done |-> TRUE, result |-> "ok",
              categories |-> [i \in 1..4 |-> <<CategoryNames[i], tables[i].table>>]]

\* ------------------------------------------------- correction summaries
RECURSIVE BitAnd(_, _)
BitAnd(a, b) ==
    IF a = 0 \/ b = 0 THEN 0
    ELSE 2 * BitAnd(a \div 2, b \div 2) + (a % 2) * (b % 2)

RECURSIVE Sum(_)
Sum(s) == IF s = <<>> THEN 0 ELSE s[1] + Sum(Tail(s))

\* np.sum(ra.data['status'] & ra.filter_codes['cell_error'] > 0)
from_cell_barcode_correction(data_status, cell_error) ==
    DataContent(<<"cell error">>,
                <<Sum([i \in 1..Len(data_status) |->
                        IF BitAnd(data_status[i], cell_error) > 0 THEN 1 ELSE 0])>>)

\* np.sum(ra.data['status'] & ra.filter_codes['rmt_error'])
from_rmt_correction(data_status, rmt_error) ==
    DataContent(<<"rmt error">>,
                <<Sum([i \in 1..Len(data_status) |->
                        BitAnd(data_status[i], rmt_error)])>>)

NotCounted == [cell |-> None, rmt |-> None]

\* ------------------------------------------------- the archive lifecycle
ArchiveNames == {<<"a">>, <<"p", "/", "a">>, <<"p", "/", "a", "/">>}

Filenames == {<<"s1.html">>, <<"s2.html">>}

IndexSections == {None, Some(<<"index.html">>), Some(<<"s1.html">>)}

ImagePaths == {<<"fig.png">>, <<"tmp", "/", "fig.png">>, <<"tmp", "/", "gone.png">>}

\* the image files that exist
SourceImages == {<<"fig.png">>, <<"tmp", "/", "fig.png">>}

NoSibling == [p \in {} |-> <<>>]

Disk(parent, dir, subdirs, files) ==
    [parent |-> parent, dir |-> dir, subdirs |-> subdirs, files |-> files,
     sibling |-> NoSibling]

\* before the first call: nothing at archive_name, or an unrelated directory
InitialDisks(name) ==
    {Disk(b, FALSE, {}, NoFiles) :
        b \in IF Len(ArchiveDir(name)) > 1 THEN BOOLEAN ELSE {TRUE}}
    \cup {Disk(TRUE, TRUE, {}, JunkFiles)}

Call(op, r, pre, failing, index, arg) ==
    [op |-> op, result |-> r.result, ret |-> r.ret, writes |-> r.writes,
     pre |-> pre, failing |-> failing, index |-> index, arg |-> arg]

NoCall == Call("none", Outcome("ok", None, <<>>, <<>>), <<>>, {}, None, <<>>)

Init ==
    /\ archive_name \in ArchiveNames
    /\ sections \in SeqsUpTo(Filenames, MaxSections)
    /\ index_section \in IndexSections
    /\ disk \in InitialDisks(archive_name)
    /\ last = [NoCall EXCEPT !.pre = disk]
    /\ calls = 0
    /\ text = <<>> /\ parsed = NotParsed
    /\ status = <<>> /\ filter_code = 0 /\ counted = NotCounted

Apply(op, r, failing, index, arg) ==
    /\ calls < MaxCalls
    /\ calls' = calls + 1
    /\ disk' = r.disk
    /\ last' = Call(op, r, disk, failing, index, arg)
    /\ UNCHANGED <<archive_name, sections, index_section, parseVars, countVars>>

PrepareArchive ==
    Apply("prepare_archive", prepare_archive(disk), {}, index_section, <<>>)

ImportImage ==
    \E image_path \in ImagePaths :
        Apply("import_image",
              import_image(disk, archive_name, image_path, image_path \in SourceImages),
              {}, index_section, image_path)

Render ==
    \E failing \in SUBSET (Range(sections) \cup index_section) :
        Apply("render", render(disk, archive_name, sections, index_section, failing),
              failing, index_section, <<>>)

CompressArchive ==
    \E add_empty_ok \in BOOLEAN :
        Apply("compress_archive", compress_archive(disk, archive_name, add_empty_ok),
              {}, index_section, <<>>)

\* a Section rendered on its own, link_sections left at its default
RenderSection ==
    \E self \in Range(sections) \cup index_section, index \in {None, index_section} :
        Apply("Section.render",
              SectionRender(disk, archive_name, self,
                            archive_name \o <<"/", "html", "/">>, None, index, FALSE),
              {}, index, self)

Next ==
    \/ PrepareArchive
    \/ ImportImage
    \/ Render
    \/ CompressArchive
    \/ RenderSection

Spec == Init /\ [][Next]_vars

\* ------------------------------------------------- claims on the archive
HtmlPath(f) == archive_name \o <<"/", "html", "/">> \o f

HtmlFile(f) == << <<"html">>, f >>

Prepared(d) == d.dir /\ <<"html">> \in d.subdirs /\ <<"img">> \in d.subdirs

IsPrefix(s, t) == Len(s) <= Len(t) /\ s = SubSeq(t, 1, Len(s))

\* the writes of a complete Summary.render, in order
ExpectedWrites ==
    <<HtmlPath(Get(index_section))>> \o [i \in 1..Len(sections) |-> HtmlPath(sections[i])]

HasKind(files, kind) == \E p \in DOMAIN files : files[p].kind = kind

\* C1: when Summary.render() has finished on a prepared archive, every
\* Section (index Section or element of sections) whose own render does not
\* fail has been written under archive_name + '/html/', whichever other
\* Sections failed.
C1_EverySectionAttempted ==
    (last.op = "render" /\ last.index # None /\ Prepared(last.pre))
        => \A f \in Range(sections) \cup index_section :
              f \notin last.failing
                  => /\ HtmlPath(f) \in Range(last.writes)
                     /\ HtmlFile(f) \in DOMAIN disk.files

\* C5: after a successful prepare_archive() the directory at archive_name
\* holds exactly the reference scaffold, whatever was there before.
C5_PrepareLeavesExactlyScaffold ==
    (last.op = "prepare_archive" /\ last.result = "ok")
        => /\ disk.dir
           /\ disk.subdirs = ReferenceSubdirs
           /\ disk.files = ReferenceFiles
           /\ \A p \in DOMAIN last.pre.files :
                 p \in DOMAIN disk.files => disk.files[p].kind = "scaffold"

C5_Witness ==
    /\ last.op = "prepare_archive" /\ last.result = "ok"
    /\ last.pre.dir
    /\ HasKind(last.pre.files, "image")
    /\ HasKind(last.pre.files, "page")

\* C6: Summary.render() writes the index Section first and then the elements
\* of sections in list order, one write per Section to archive_name +
\* '/html/' + filename, every page with the sibling list sections and the
\* same index Section; a complete render makes 1 + len(sections) writes, and
\* no file other than the written ones changes.
C6_RenderOrderAndWrites ==
    (last.op = "render" /\ last.index # None)
        => /\ IsPrefix(last.writes, ExpectedWrites)
           /\ last.result = "ok" =>
                 /\ last.writes = ExpectedWrites
                 /\ Len(last.writes) = 1 + Len(sections)
           /\ \A f \in Range(sections) \cup index_section :
                 HtmlPath(f) \in Range(last.writes) =>
                     /\ HtmlFile(f) \in DOMAIN disk.files
                     /\ disk.files[HtmlFile(f)] =
                            Content("page", f, sections, Get(index_section), NoTree)
           /\ \A p \in DOMAIN disk.files \cup DOMAIN last.pre.files :
                 (\A f \in Range(sections) \cup index_section :
                     HtmlPath(f) \in Range(last.writes) => p # HtmlFile(f))
                 => /\ p \in DOMAIN disk.files /\ p \in DOMAIN last.pre.files
                    /\ disk.files[p] = last.pre.files[p]
           /\ disk.subdirs = last.pre.subdirs
           /\ disk.sibling = last.pre.sibling
           /\ disk.dir = last.pre.dir /\ disk.parent = last.pre.parent

C6_Witness ==
    /\ last.op = "render" /\ last.result = "ok"
    /\ Len(sections) = 2 /\ sections[1] # sections[2]
    /\ HasKind(last.pre.files, "image")
    /\ HasKind(disk.files, "image")

\* C7: with the directory at archive_name present, compress_archive()
\* succeeds, returns archive_name + '.tar.gz', and that file lies next to the
\* archive directory and holds the whole directory tree under the
\* directory's name.
C7_CompressCreatesSiblingArchive ==
    (last.op = "compress_archive" /\ last.pre.dir)
        => LET base == BaseName(ArchiveDir(archive_name))
               tar == base \o <<".tar.gz">>
           IN  /\ last.result = "ok"
               /\ last.ret = Some(archive_name \o <<".tar.gz">>)
               /\ DOMAIN disk.sibling = {tar}
               /\ disk.sibling[tar].kind = "tar"
               /\ disk.sibling[tar].links = <<base>>
               /\ disk.sibling[tar].tree =
                      [subdirs |-> last.pre.subdirs, files |-> last.pre.files]
               /\ disk.files = last.pre.files

\* C8 as stated: with no directory at archive_name, render() (index Section
\* set), import_image() and compress_archive() fail with a filesystem error,
\* return nothing and leave the filesystem as it was.
C8_FailsAndLeavesFilesystemUnchanged ==
    (/\ last.op \in {"render", "import_image", "compress_archive"}
     /\ last.index # None /\ last.failing = {}
     /\ ~last.pre.dir)
        => /\ last.result = "FileNotFoundError"
           /\ last.ret = None
           /\ disk = last.pre

\* C8 as amended: with no directory at archive_name the three calls fail,
\* return nothing and create nothing at archive_name; render() and
\* import_image() leave the filesystem as it was, and so does
\* compress_archive() unless the part of archive_name before its last '/'
\* names an existing directory: then an empty archive_name + '.tar.gz' stays
\* behind.
C8_FailsWithoutCreatingArchive ==
    (/\ last.op \in {"render", "import_image", "compress_archive"}
     /\ last.index # None
     /\ ~last.pre.dir)
        => LET parts == rpartition(archive_name, "/")
               stray == /\ parts[1] # <<>>
                        /\ DirExists(last.pre, archive_name, Components(parts[1]))
               tar == BaseName(ArchiveDir(archive_name)) \o <<".tar.gz">>
           IN  /\ last.result # "ok"
               /\ last.failing = {} => last.result = "FileNotFoundError"
               /\ last.ret = None
               /\ ~disk.dir
               /\ disk.files = last.pre.files /\ disk.subdirs = last.pre.subdirs
               /\ (last.op # "compress_archive" \/ ~stray) => disk = last.pre
               /\ (last.op = "compress_archive" /\ stray) =>
                     /\ disk.sibling =
                            With(last.pre.sibling, tar,
                                 Content("tar", archive_name \o <<".tar.gz">>,
                                         <<>>, <<>>, NoTree))
                     /\ disk.parent = last.pre.parent

C8_Witness ==
    /\ last.op = "compress_archive"
    /\ ~last.pre.dir /\ last.index # None
    /\ last.result = "FileNotFoundError"
    /\ disk # last.pre

\* C10: with no index Section (Summary.render() on a Summary whose
\* index_section is None, Section.render with index_section left at None)
\* the call fails before any file is written: no Section is rendered and the
\* filesystem is as it was.
C10_NoIndexNoWrite ==
    (last.op \in {"render", "Section.render"} /\ last.index = None)
        => /\ last.result = "AttributeError"
           /\ last.writes = <<>>
           /\ disk = last.pre

C10_Witness ==
    /\ last.op = "Section.render" /\ last.index = None
    /\ Prepared(last.pre)
    /\ index_section = None /\ sections # <<>>
    /\ last.result = "AttributeError"

\* ------------------------------------------ parsing an alignment summary
\* what stands between two markers: nothing, text without '|', key | value
\* lines (also with an empty key or value, or a second '|'), several lines
BlockTexts ==
    { <<>>,
      <<"5", "\n">>,
      <<"a", " ", "|", " ", "1", "\n">>,
      <<"b", " ", "|", " ", "\n">>,
      <<" ", "|", "2", "\n">>,
      <<"c", "|", "3", "|", "x", "\n">>,
      <<"\n", "a", " ", "|", " ", "1", "\n", "b", " ", "|", " ", "2", "\n">>,
      <<"b", "|", "\n", "a", "|", "1", "|", "x", "\n", "c", "|", "3">> }

\* four blocks, each marker present or absent
Texts ==
    { b[1] \o m[1] \o b[2] \o m[2] \o b[3] \o m[3] \o b[4] :
        b \in [1..4 -> BlockTexts],
        m \in {<<>>, <<UNIQUE>>} \X {<<>>, <<MULTI>>} \X {<<>>, <<UNMAPPED>>} }

IdleArchive ==
    /\ archive_name = <<"a">> /\ sections = <<>> /\ index_section = None
    /\ disk = Disk(TRUE, FALSE, {}, NoFiles)
    /\ last = [NoCall EXCEPT !.pre = disk]
    /\ calls = 0

InitParse ==
    /\ text \in Texts
    /\ parsed = NotParsed
    /\ status = <<>> /\ filter_code = 0 /\ counted = NotCounted
    /\ IdleArchive

FromAlignmentSummary ==
    /\ ~parsed.done
    /\ parsed' = from_alignment_summary(text)
    /\ UNCHANGED <<text, archiveVars, countVars>>

NextParse == FromAlignmentSummary

SpecParse == InitParse /\ [][NextParse]_vars

PipeLineCount(block) == Len(PipeRows(block))

\* C2: from_alignment_summary returns a Section with all four categories
\* for every text; a category whose block holds no line with a '|' (its
\* marker absent, or nothing but other lines) is an empty Table.
C2_ParseNeverRaises ==
    parsed.done
        => /\ parsed.result = "ok"
           /\ Len(parsed.categories) = 4
           /\ \A i \in 1..4 :
                 PipeLineCount(Blocks(text)[i]) = 0
                     => parsed.categories[i][2] = DataContent(<<>>, <<>>)

\* C3: in every Table the parse returns, keys and values have the same
\* length and the i-th value is the one that stood with the i-th key on
\* its line.
C3_KeysPairWithValues ==
    (parsed.done /\ parsed.result = "ok")
        => \A c \in 1..Len(parsed.categories) :
              LET table == parsed.categories[c][2]
                  rows == PipeRows(Blocks(text)[c])
              IN  /\ Len(table.keys) = Len(table.values)
                  /\ \A i \in 1..Len(table.keys) :
                        \E r \in 1..Len(rows) :
                            /\ strip(rows[r][1]) = table.keys[i]
                            /\ i <= Len(table.values)
                            /\ strip(rows[r][2]) = table.values[i]

HasMarkersInOrder(data) ==
    LET p1 == partition(data, UNIQUE)
        p2 == partition(p1[3], MULTI)
        p3 == partition(p2[3], UNMAPPED)
    IN  p1[2] # <<>> /\ p2[2] # <<>> /\ p3[2] # <<>>

\* C4: a text holding the three markers in order parses into exactly the
\* four Tables 'Run Time', 'Unique Reads and Splicing', 'Multimapping
\* Reads', 'Unmapped Reads', and their key counts add up to the number of
\* lines of the text that hold a '|'.
C4_FourTablesCountPipeLines ==
    (parsed.done /\ HasMarkersInOrder(text))
        => /\ parsed.result = "ok"
           /\ Len(parsed.categories) = 4
           /\ \A i \in 1..4 : parsed.categories[i][1] = CategoryNames[i]
           /\ Sum([i \in 1..4 |-> Len(parsed.categories[i][2].keys)])
                  = PipeLineCount(text)

\* ------------------------------------------------ counting status bits
FilterCodes == {1, 2, 4}

InitCount ==
    /\ status \in SeqsUpTo(0..MaxStatus, MaxRecords)
    /\ filter_code \in FilterCodes
    /\ counted = NotCounted
    /\ text = <<>> /\ parsed = NotParsed
    /\ IdleArchive

FromCellBarcodeCorrection ==
    /\ counted.cell = None
    /\ counted' = [counted EXCEPT
                     !.cell = Some(from_cell_barcode_correction(status, filter_code))]
    /\ UNCHANGED <<status, filter_code, archiveVars, parseVars>>

FromRmtCorrection ==
    /\ counted.rmt = None
    /\ counted' = [counted EXCEPT
                     !.rmt = Some(from_rmt_correction(status, filter_code))]
    /\ UNCHANGED <<status, filter_code, archiveVars, parseVars>>

NextCount ==
    \/ FromCellBarcodeCorrection
    \/ FromRmtCorrection

SpecCount == InitCount /\ [][NextCount]_vars

RecordsWithBit ==
    Cardinality({i \in 1..Len(status) : BitAnd(status[i], filter_code) # 0})

\* C9: the single value of the 'cell error' Table and of the 'rmt error'
\* Table is the number of records whose status has the filter code's bit
\* set.
C9_SingleValueIsCount ==
    /\ counted.cell # None =>
          Get(counted.cell) = DataContent(<<"cell error">>, <<RecordsWithBit>>)
    /\ counted.rmt # None =>
          Get(counted.rmt) = DataContent(<<"rmt error">>, <<RecordsWithBit>>)

====
